---------------------------- MODULE Spec2Model ----------------------------
(***************************************************************************)
(* Framed transport (src/src/framed.rs): a byte channel turned into a      *)
(* Stream of decoded frames (poll_next) and a Sink of frames to encode     *)
(* (start_send, poll_ready, poll_flush), plus poll_shutdown.               *)
(*                                                                         *)
(* The loops of poll_next and poll_ready are modelled one channel call at  *)
(* a time: rpc / wpc hold the position of the handler between two calls on *)
(* the channel, and each action runs the code from one call on the channel *)
(* up to the next one (or up to the handler's return).                     *)
(*                                                                         *)
(* Bytes are naturals.  The codec (super::codec, not part of framed.rs) is *)
(* a length-prefixed codec: a frame is one length symbol followed by that  *)
(* many payload bytes.                                                     *)
(***************************************************************************)
EXTENDS Integers, Sequences, FiniteSets, TLC

VARIABLES
    read_buf,      \* Framed.read_buf
    eof,           \* Framed.eof
    is_readable,   \* Framed.is_readable
    write_buf,     \* Framed.write_buf
    wire,          \* bytes the channel carries: accepted by write, delivered by read
    closed,        \* the channel's write end has been shut down
    chan,          \* kind of channel: "normal", or "zero" (write always returns 0)
    rpos,          \* number of bytes of wire already delivered to reads
    rpc,           \* position of poll_next: "idle", "top", "read", "aborted"
    rres,          \* result of the last completed pull
    out,           \* items (frames and errors) yielded by the pulls so far
    neof,          \* invocations of decode_eof so far
    rhist,         \* last decoder result or completed read: "start", "none",
                   \* "frame", "err", "eof" (decode_eof called), "read" (n >= 1
                   \* bytes), "zero" (0 bytes); a suspended read leaves it
    wpc,           \* position of the write side: "idle", "drain", "aborted"
    wcaller,       \* the write-side operation running or last run
    witem,         \* the item start_send holds while it drains
    wres,          \* result of the last completed write-side operation
    wback,         \* <<item>> handed back by the last rejected start_send, or <<>>
    accepted,      \* items accepted by start_send, in order
    nwrite,        \* write calls issued by the current / last write-side operation
    nflush,        \* flush calls issued by the current / last write-side operation
    npart          \* partial writes the channel has made so far

vars == <<read_buf, eof, is_readable, write_buf, wire, closed, chan, rpos, rpc,
          rres, out, neof, rhist, wpc, wcaller, witem, wres, wback, accepted, nwrite,
          nflush, npart>>

rvars == <<read_buf, eof, is_readable, rpos, rpc, rres, out, neof, rhist>>
wvars == <<write_buf, wpc, wcaller, witem, wres, wback, accepted, nwrite,
           nflush, npart>>

---------------------------------------------------------------------------
(* Bounds of the model *)

MaxFrames == 2    \* frames in an incoming stream
MaxChunk == 3     \* most bytes one read delivers
MaxErrs == 2      \* error items the pulls are followed through
MaxSubmits == 3   \* items accepted by start_send
MaxPartial == 1   \* partial writes the channel makes
BigLen == 4095    \* payload length of the large item

---------------------------------------------------------------------------
(* Program constants *)

INITIAL_CAPACITY == 8 * 1024
BACKPRESSURE_BOUNDARY == INITIAL_CAPACITY

---------------------------------------------------------------------------
(* Sequence helpers *)

Drop(s, n) == SubSeq(s, n + 1, Len(s))
Take(s, n) == SubSeq(s, 1, n)
Min(a, b) == IF a <= b THEN a ELSE b

---------------------------------------------------------------------------
(* The codec: length-prefixed frames, payloads of at most MaxFrameLen bytes *)

MaxFrameLen == BigLen

\* Encoder::encode: Ok and the encoding appended to the tail, or Err and
\* nothing appended.
EncodeFails(item) == Len(item) > MaxFrameLen
Encode(item, buf) == buf \o <<Len(item)>> \o item

\* Decoder::decode: a frame removed from the head, "none" with the buffer
\* untouched, or an error.
Decode(buf) ==
    IF buf = <<>> THEN [kind |-> "none", buf |-> buf]
    ELSE IF buf[1] > MaxFrameLen THEN [kind |-> "err", err |-> "decode", buf |-> buf]
    ELSE IF Len(buf) < 1 + buf[1] THEN [kind |-> "none", buf |-> buf]
    ELSE [kind |-> "frame", frame |-> SubSeq(buf, 2, 1 + buf[1]),
          buf |-> Drop(buf, 1 + buf[1])]

\* Decoder::decode_eof (the default): decode, then fail if bytes remain.
DecodeEof(buf) ==
    LET r == Decode(buf)
    IN  IF r.kind = "none" /\ r.buf # <<>>
        THEN [kind |-> "err", err |-> "trailing", buf |-> r.buf]
        ELSE r

---------------------------------------------------------------------------
(* Framed::new *)

NewRead ==
    /\ read_buf = <<>>
    /\ eof = FALSE
    /\ is_readable = FALSE
    /\ rpos = 0
    /\ rpc = "idle"
    /\ rres = "none"
    /\ out = <<>>
    /\ neof = 0
    /\ rhist = "start"

NewWrite ==
    /\ write_buf = <<>>
    /\ wpc = "idle"
    /\ wcaller = "none"
    /\ witem = <<>>
    /\ wres = "none"
    /\ wback = <<>>
    /\ accepted = <<>>
    /\ nwrite = 0
    /\ nflush = 0
    /\ npart = 0

---------------------------------------------------------------------------
(* The channel *)

\* Bytes written to the channel and not yet delivered to a read.
Avail == Len(wire) - rpos

\* Mutant of ReadInto: the bytes read are put at the head.
ReadIntoFront(buf, bytes) == bytes \o buf

\* Mutant of ReadInto: the bytes read replace the buffer.
ReadIntoOverwrite(buf, bytes) == bytes

\* AsyncReadExt::read_buf: the bytes read are appended to the tail.
ReadInto(buf, bytes) == buf \o bytes

\* Mutant of SplitTo: split_off in place of split_to, the first n bytes are kept.
SplitOff(buf, n) == Take(buf, n)

\* BytesMut::split_to(n) as poll_ready uses it: the first n bytes are removed.
SplitTo(buf, n) == Drop(buf, n)

\* The sizes of the partial writes the channel makes on a buffer of len bytes.
PartSizes(len) == {n \in {1, len \div 2} : 1 <= n /\ n < len}

---------------------------------------------------------------------------
(* Stream::poll_next *)

ErrCount == Cardinality({i \in 1..Len(out) : out[i][1] = "err"})

\* A caller pulls: poll_next is entered at the top of its loop.
PollNext ==
    /\ rpc = "idle"
    /\ ErrCount < MaxErrs
    /\ rpc' = "top"
    /\ UNCHANGED <<read_buf, eof, is_readable, rpos, rres, out, neof, rhist>>
    /\ UNCHANGED <<wire, closed, chan>>
    /\ UNCHANGED wvars

\* poll_next returns Poll::Ready(Some(item)).
Yield(item, res, buf) ==
    /\ out' = Append(out, item)
    /\ rres' = res
    /\ read_buf' = buf
    /\ rpc' = "idle"
    /\ UNCHANGED <<eof, is_readable, rpos>>

\* A failed unwrap or assert: the task panics.
ReadPanic ==
    /\ rpc' = "aborted"
    /\ rres' = "panic"
    /\ UNCHANGED <<read_buf, eof, is_readable, rpos, out>>

\* The eof branch: decode_eof, and its result unwrapped.
EofBranch ==
    LET r == DecodeEof(read_buf)
    IN  /\ neof' = neof + 1
        /\ rhist' = "eof"
        /\ CASE r.kind = "frame" -> Yield(<<"ok", r.frame>>, "item", r.buf)
             [] r.kind = "err" -> Yield(<<"err", r.err>>, "err", r.buf)
             [] r.kind = "none" -> ReadPanic

\* Mutant of DecodeBranch: is_readable is not cleared when decode returns None.
DecodeBranchKeepReadable ==
    LET r == Decode(read_buf)
    IN  /\ rhist' = r.kind
        /\ UNCHANGED neof
        /\ CASE r.kind = "frame" -> Yield(<<"ok", r.frame>>, "item", r.buf)
             [] r.kind = "err" -> Yield(<<"err", r.err>>, "err", r.buf)
             [] r.kind = "none" ->
                   /\ rpc' = "read"
                   /\ read_buf' = r.buf
                   /\ UNCHANGED <<is_readable, eof, rpos, rres, out>>

\* The decode branch: a frame or an error is returned; on None is_readable
\* is cleared and the loop goes on to the read (the assert holds: eof is false
\* in this branch).
DecodeBranch ==
    LET r == Decode(read_buf)
    IN  /\ rhist' = r.kind
        /\ UNCHANGED neof
        /\ CASE r.kind = "frame" -> Yield(<<"ok", r.frame>>, "item", r.buf)
             [] r.kind = "err" -> Yield(<<"err", r.err>>, "err", r.buf)
             [] r.kind = "none" ->
                   /\ is_readable' = FALSE
                   /\ rpc' = "read"
                   /\ read_buf' = r.buf
                   /\ UNCHANGED <<eof, rpos, rres, out>>

\* assert!(!self.eof) fails: the task panics.
AssertFails ==
    /\ rpc' = "aborted"
    /\ rres' = "assert"
    /\ UNCHANGED <<read_buf, eof, is_readable, rpos, out>>

\* The loop from its top up to the read of the channel.
LoopTop ==
    /\ rpc = "top"
    /\ IF is_readable
       THEN IF eof THEN EofBranch ELSE DecodeBranch
       ELSE /\ UNCHANGED <<neof, rhist>>
            /\ IF eof
               THEN AssertFails
               ELSE /\ rpc' = "read"
                    /\ UNCHANGED <<read_buf, eof, is_readable, rpos, rres, out>>
    /\ UNCHANGED <<wire, closed, chan>>
    /\ UNCHANGED wvars

\* The read suspends: ready! returns Poll::Pending.
ReadPending ==
    /\ rpc = "read"
    /\ rpc' = "idle"
    /\ rres' = "pending"
    /\ UNCHANGED <<read_buf, eof, is_readable, rpos, out, neof, rhist>>
    /\ UNCHANGED <<wire, closed, chan>>
    /\ UNCHANGED wvars

\* The read delivers n >= 1 bytes.
ReadSome ==
    /\ rpc = "read"
    /\ \E n \in 1..Min(MaxChunk, Avail) :
          /\ read_buf' = ReadInto(read_buf, SubSeq(wire, rpos + 1, rpos + n))
          /\ rpos' = rpos + n
    /\ is_readable' = TRUE
    /\ rpc' = "top"
    /\ rhist' = "read"
    /\ UNCHANGED <<eof, rres, out, neof>>
    /\ UNCHANGED <<wire, closed, chan>>
    /\ UNCHANGED wvars

\* Mutant of ReadZero: eof is not set.
ReadZeroNoEof ==
    /\ rpc = "read"
    /\ Avail = 0
    /\ closed
    /\ is_readable' = TRUE
    /\ rpc' = "top"
    /\ rhist' = "zero"
    /\ UNCHANGED <<eof, read_buf, rpos, rres, out, neof>>
    /\ UNCHANGED <<wire, closed, chan>>
    /\ UNCHANGED wvars

\* Mutant of ReadZero: is_readable is set only by a read of n >= 1 bytes.
ReadZeroNotReadable ==
    /\ rpc = "read"
    /\ Avail = 0
    /\ closed
    /\ eof' = TRUE
    /\ rpc' = "top"
    /\ rhist' = "zero"
    /\ UNCHANGED <<is_readable, read_buf, rpos, rres, out, neof>>
    /\ UNCHANGED <<wire, closed, chan>>
    /\ UNCHANGED wvars

\* The read returns 0: end of input.
ReadZero ==
    /\ rpc = "read"
    /\ Avail = 0
    /\ closed
    /\ eof' = TRUE
    /\ is_readable' = TRUE
    /\ rpc' = "top"
    /\ rhist' = "zero"
    /\ UNCHANGED <<read_buf, rpos, rres, out, neof>>
    /\ UNCHANGED <<wire, closed, chan>>
    /\ UNCHANGED wvars

ReadNext == PollNext \/ LoopTop \/ ReadPending \/ ReadSome \/ ReadZero

---------------------------------------------------------------------------
(* The read path on an incoming stream that the peer has written and closed *)

Payloads == {<<>>, <<1>>, <<2, 1>>}

RECURSIVE Flatten(_)
Flatten(items) ==
    IF items = <<>> THEN <<>>
    ELSE Encode(items[1], <<>>) \o Flatten(Tail(items))

FrameSeqs == UNION {[1..n -> Payloads] : n \in 0..MaxFrames}

\* What follows the frames: nothing, a truncated frame of 3 bytes, a length
\* the decoder refuses, a refused length with a frame behind it.
Tails == {<<>>, <<3, 1, 2>>, <<MaxFrameLen + 1>>, <<MaxFrameLen + 1, 1, 1>>}

Inputs == {Flatten(fs) \o t : fs \in FrameSeqs, t \in Tails}

InitRead ==
    /\ NewRead
    /\ NewWrite
    /\ wire \in Inputs
    /\ closed = TRUE
    /\ chan = "normal"

SpecRead == InitRead /\ [][ReadNext]_vars

\* The same with the scheduling the single task gives: the loop runs on, a
\* pull that returned Pending is polled again, and a read that can complete
\* is not suspended forever.
SpecReadFair ==
    /\ InitRead
    /\ [][ReadNext]_vars
    /\ WF_vars(LoopTop)
    /\ WF_vars(PollNext)
    /\ SF_vars(ReadSome)
    /\ SF_vars(ReadZero)

---------------------------------------------------------------------------
(* Sink::start_send and Sink::poll_ready *)

\* Mutant of OverBoundary: > in place of >=.
OverBoundaryStrict(buf) == Len(buf) > BACKPRESSURE_BOUNDARY

\* The backpressure test of start_send.
OverBoundary(buf) == Len(buf) >= BACKPRESSURE_BOUNDARY

\* Mutant of IsWriteZero: the test is left out.
NeverWriteZero(n) == FALSE

\* The n == 0 test of poll_ready.
IsWriteZero(n) == n = 0

\* Mutant of SendFinish: the backpressure test after the drain is left out.
SendFinishNoCheck(item) ==
    IF EncodeFails(item)
    THEN /\ wres' = "encode_err"
         /\ UNCHANGED <<write_buf, accepted, wback>>
    ELSE /\ wres' = "accepted"
         /\ write_buf' = Encode(item, write_buf)
         /\ accepted' = Append(accepted, item)
         /\ UNCHANGED wback

\* Mutant of SendFinish: the item is encoded before the backpressure test.
SendFinishEncodeFirst(item) ==
    IF EncodeFails(item)
    THEN /\ wres' = "encode_err"
         /\ UNCHANGED <<write_buf, accepted, wback>>
    ELSE /\ write_buf' = Encode(item, write_buf)
         /\ IF OverBoundary(write_buf)
            THEN /\ wres' = "rejected"
                 /\ wback' = <<item>>
                 /\ UNCHANGED accepted
            ELSE /\ wres' = "accepted"
                 /\ accepted' = Append(accepted, item)
                 /\ UNCHANGED wback

\* start_send after its drain attempt: the second backpressure test, then
\* the encode.
SendFinish(item) ==
    IF OverBoundary(write_buf)
    THEN /\ wres' = "rejected"
         /\ wback' = <<item>>
         /\ UNCHANGED <<write_buf, accepted>>
    ELSE IF EncodeFails(item)
         THEN /\ wres' = "encode_err"
              /\ UNCHANGED <<write_buf, accepted, wback>>
         ELSE /\ wres' = "accepted"
              /\ write_buf' = Encode(item, write_buf)
              /\ accepted' = Append(accepted, item)
              /\ UNCHANGED wback

\* poll_ready returns r ("ok", "pending" or "write_zero") with write_buf as
\* it stands: to its caller, or into start_send, where ? returns the error
\* and lets Ready(Ok) and Pending through.
DrainReturn(r) ==
    /\ wpc' = "idle"
    /\ IF wcaller = "poll_ready"
       THEN /\ wres' = r
            /\ UNCHANGED <<write_buf, accepted, wback>>
       ELSE IF r = "write_zero"
            THEN /\ wres' = "write_zero"
                 /\ UNCHANGED <<write_buf, accepted, wback>>
            ELSE SendFinish(witem)
    /\ UNCHANGED <<wcaller, witem>>

\* A caller submits an item.
StartSend(item) ==
    /\ wpc = "idle"
    /\ ~closed
    /\ Len(accepted) < MaxSubmits
    /\ nwrite' = 0
    /\ nflush' = 0
    /\ wcaller' = "start_send"
    /\ witem' = item
    /\ IF OverBoundary(write_buf)
       THEN /\ wpc' = "drain"
            /\ UNCHANGED <<write_buf, accepted, wres, wback>>
       ELSE /\ SendFinish(item)
            /\ UNCHANGED wpc
    /\ UNCHANGED <<wire, closed, chan, npart>>
    /\ UNCHANGED rvars

\* A caller asks for a drain and flush.
PollReady ==
    /\ wpc = "idle"
    /\ ~closed
    /\ wpc' = "drain"
    /\ wcaller' = "poll_ready"
    /\ nwrite' = 0
    /\ nflush' = 0
    /\ UNCHANGED <<write_buf, witem, wres, wback, accepted, npart>>
    /\ UNCHANGED <<wire, closed, chan>>
    /\ UNCHANGED rvars

\* One iteration of the while loop, the write suspending.
WritePending ==
    /\ wpc = "drain"
    /\ write_buf # <<>>
    /\ chan = "normal"
    /\ nwrite' = nwrite + 1
    /\ DrainReturn("pending")
    /\ UNCHANGED <<wire, closed, chan, npart, nflush>>
    /\ UNCHANGED rvars

\* One iteration of the while loop, the write returning n.
WriteDone(n) ==
    /\ nwrite' = nwrite + 1
    /\ IF IsWriteZero(n)
       THEN /\ DrainReturn("write_zero")
            /\ UNCHANGED wire
       ELSE /\ write_buf' = SplitTo(write_buf, n)
            /\ wire' = wire \o Take(write_buf, n)
            /\ UNCHANGED <<wpc, wcaller, witem, wres, wback, accepted>>

\* The channel takes nothing: write returns 0.
WriteZero ==
    /\ wpc = "drain"
    /\ write_buf # <<>>
    /\ WriteDone(0)
    /\ UNCHANGED <<closed, chan, npart, nflush>>
    /\ UNCHANGED rvars

\* The channel takes the whole buffer.
WriteAll ==
    /\ wpc = "drain"
    /\ write_buf # <<>>
    /\ chan = "normal"
    /\ WriteDone(Len(write_buf))
    /\ UNCHANGED <<closed, chan, npart, nflush>>
    /\ UNCHANGED rvars

\* The channel takes a part of the buffer.
WritePart ==
    /\ wpc = "drain"
    /\ write_buf # <<>>
    /\ chan = "normal"
    /\ npart < MaxPartial
    /\ npart' = npart + 1
    /\ \E n \in PartSizes(Len(write_buf)) : WriteDone(n)
    /\ UNCHANGED <<closed, chan, nflush>>
    /\ UNCHANGED rvars

\* write_buf is empty: the flush, which suspends or completes.
Flush ==
    /\ wpc = "drain"
    /\ write_buf = <<>>
    /\ nflush' = nflush + 1
    /\ \E r \in {"pending", "ok"} : DrainReturn(r)
    /\ UNCHANGED <<wire, closed, chan, npart, nwrite>>
    /\ UNCHANGED rvars

\* Sink::poll_flush: todo!() panics.
PollFlush ==
    /\ wpc = "idle"
    /\ ~closed
    /\ wpc' = "aborted"
    /\ wcaller' = "poll_flush"
    /\ wres' = "panic"
    /\ nwrite' = 0
    /\ nflush' = 0
    /\ UNCHANGED <<write_buf, witem, wback, accepted, npart>>
    /\ UNCHANGED <<wire, closed, chan>>
    /\ UNCHANGED rvars

\* Mutant of PollShutdown: write_buf is written out before the close.
PollShutdownFlush ==
    /\ wpc = "idle"
    /\ ~closed
    /\ closed' = TRUE
    /\ wire' = wire \o write_buf
    /\ write_buf' = <<>>
    /\ UNCHANGED <<chan, wpc, wcaller, witem, wres, wback, accepted, nwrite,
                   nflush, npart>>
    /\ UNCHANGED rvars

\* AsyncWrite::poll_shutdown: the channel is asked to close, nothing else.
PollShutdown ==
    /\ wpc = "idle"
    /\ ~closed
    /\ closed' = TRUE
    /\ UNCHANGED <<wire, chan>>
    /\ UNCHANGED wvars
    /\ UNCHANGED rvars

---------------------------------------------------------------------------
(* The write path on a channel nobody reads *)

Big == [i \in 1..BigLen |-> 1]
Oversize == [i \in 1..(MaxFrameLen + 1) |-> 2]
Items == {<<2, 1>>, Big, Oversize}

WriteNext ==
    \/ \E item \in Items : StartSend(item)
    \/ PollReady
    \/ WritePending
    \/ WriteZero
    \/ WriteAll
    \/ WritePart
    \/ Flush
    \/ PollFlush
    \/ PollShutdown

InitWrite ==
    /\ NewRead
    /\ NewWrite
    /\ wire = <<>>
    /\ closed = FALSE
    /\ chan \in {"normal", "zero"}

SpecWrite == InitWrite /\ [][WriteNext]_vars

---------------------------------------------------------------------------
(* Round trip: the write side of one transport feeds, through the channel,
   the read side of a fresh transport built by Framed::new.  write_buf and
   the write-side variables are the sender's fields, read_buf, eof and
   is_readable the receiver's. *)

PipeNext ==
    \/ \E item \in Payloads : StartSend(item)
    \/ PollReady
    \/ WritePending
    \/ WriteZero
    \/ WriteAll
    \/ WritePart
    \/ Flush
    \/ PollShutdown
    \/ ReadNext

InitPipe ==
    /\ NewRead
    /\ NewWrite
    /\ wire = <<>>
    /\ closed = FALSE
    /\ chan = "normal"

SpecPipe == InitPipe /\ [][PipeNext]_vars

---------------------------------------------------------------------------
(* Claims about the read path (SpecRead) *)

\* The incoming stream is exactly N complete frames.
IsFrames(w) == \E fs \in FrameSeqs : Flatten(fs) = w

\* The frames a decoder holding the whole of buf at once takes from it.
RECURSIVE RefFrames(_)
RefFrames(buf) ==
    LET r == Decode(buf)
    IN  IF r.kind = "frame" THEN <<r.frame>> \o RefFrames(r.buf) ELSE <<>>

\* What that decoder is left with after its last frame.
RECURSIVE RefRest(_)
RefRest(buf) ==
    LET r == Decode(buf)
    IN  IF r.kind = "frame" THEN RefRest(r.buf) ELSE buf

\* C1: if the channel delivers exactly the bytes of N complete frames and
\* then end-of-input, the pulls yield N Ok items and then a clean
\* end-of-sequence: no error item, no abort, and once eof is seen with the
\* N items out a completed pull signals end-of-sequence.
C1_CleanEndAfterFrames ==
    IsFrames(wire) =>
        /\ rres \notin {"panic", "err"}
        /\ \A i \in 1..Len(out) : out[i] = <<"ok", RefFrames(wire)[i]>>
        /\ (eof /\ rpc = "idle") => (rres = "end" /\ Len(out) = Len(RefFrames(wire)))

\* C2: when the channel ends with bytes in read_buf that the codec cannot
\* assemble into a frame, the pulls yield a trailing-bytes error and that
\* error is the final item: nothing is yielded after it.
C2_TrailingErrorIsFinal ==
    /\ \A i \in 1..(Len(out) - 1) : out[i] # <<"err", "trailing">>
    /\ (eof /\ rpc = "idle" /\ read_buf # <<>>) => <<"err", "trailing">> = out[Len(out)]

\* A pull has yielded a decode error or signalled end-of-sequence.
Terminal == rres = "end" \/ \E i \in 1..Len(out) : out[i][1] = "err"

\* C3: the terminal state is sticky: once a pull has yielded an error or
\* signalled end-of-sequence, every later pull signals end-of-sequence and
\* calls neither the decoder nor the channel (read_buf and rpos stay as they
\* are, no item is yielded).
C3_TerminalIsSticky ==
    [][(Terminal /\ rpc = "top")
          => (rpc' = "idle" /\ rres' = "end" /\ UNCHANGED <<read_buf, rpos, out>>)]_vars

\* The item a decoder holding the whole stream yields at position i: its
\* i-th frame, then the error it ends on.
RefItem(w, i) ==
    IF i <= Len(RefFrames(w)) THEN <<"ok", RefFrames(w)[i]>>
    ELSE IF Decode(RefRest(w)).kind = "err" THEN <<"err", "decode">>
    ELSE <<"err", "trailing">>

\* C7: partial-read robustness: whatever way the channel splits the stream
\* across reads and suspensions, the items yielded are those a single read
\* of the whole stream yields, in the same order; the frames are all out
\* before anything else is, and the pulls abort only where that decoder
\* finds nothing left.
C7_ChunkingIndependent ==
    /\ \A i \in 1..Len(out) : out[i] = RefItem(wire, i)
    /\ rres = "panic" => (RefRest(wire) = <<>> /\ Len(out) = Len(RefFrames(wire)))
    /\ eof => Len(out) >= Len(RefFrames(wire))

\* C7 witness: two frames out, the second one put together from the bytes of
\* more than one read, more bytes still to come.
C7_Witness ==
    /\ Len(out) = 2
    /\ out[2] = <<"ok", <<2, 1>>>>
    /\ rpos > MaxChunk
    /\ Avail > 0

---------------------------------------------------------------------------
(* Claims about the write path (SpecWrite) *)

\* C4: write-side FIFO/prefix invariant: in every state, a drain suspended
\* or abandoned part-way included, the bytes the channel has accepted
\* followed by write_buf are the encodings of the accepted items in
\* submission order: nothing lost, duplicated, reordered or interleaved.
C4_WriteFifo == wire \o write_buf = Flatten(accepted)

\* C4 witness: a drain suspended part-way through the second item, a third
\* item accepted behind it.
C4_Witness ==
    /\ Len(accepted) = 3
    /\ wpc = "idle"
    /\ wres = "accepted"
    /\ npart > 0
    /\ wire # <<>>
    /\ write_buf # <<>>
    /\ Len(wire) > Len(Flatten(<<accepted[1]>>))
    /\ Len(wire) < Len(Flatten(<<accepted[1], accepted[2]>>))
    /\ accepted[1] # accepted[2]

\* A step that completes a start_send, and the item it was called with.
SendCompletes(item) ==
    \/ StartSend(item) /\ wpc' = "idle"
    \/ /\ WritePending \/ WriteZero \/ Flush
       /\ wcaller = "start_send"
       /\ item = witem

\* The first write of a start_send entered at or over the boundary suspends.
FirstWriteSuspends ==
    /\ WritePending
    /\ wcaller = "start_send"
    /\ nwrite = 0
    /\ Len(write_buf) >= BACKPRESSURE_BOUNDARY

\* The submit that follows a successful drain-and-flush, of the item handed
\* back by the last rejection.
ResubmitAfterDrain ==
    /\ wback # <<>>
    /\ wcaller = "poll_ready"
    /\ wres = "ok"
    /\ SendCompletes(wback[1])

\* C5 as stated: with write_buf at 8192 bytes or more and the channel
\* suspending the write, the submit is rejected and hands the item back;
\* after a drain-and-flush that succeeds, submitting that item is accepted.
C5_RejectThenAccept ==
    [][/\ FirstWriteSuspends =>
             (wres' = "rejected" /\ wback' = <<witem>> /\ UNCHANGED <<write_buf, accepted>>)
       /\ ResubmitAfterDrain => wres' = "accepted"]_vars

\* C5 amended: the same, the submit after the successful drain being accepted
\* when the codec can encode the item, and ending in the encode error (never
\* in a rejection) when it cannot.
C5_RejectThenEncode ==
    [][/\ FirstWriteSuspends =>
             (wres' = "rejected" /\ wback' = <<witem>> /\ UNCHANGED <<write_buf, accepted>>)
       /\ ResubmitAfterDrain =>
             /\ wres' = (IF EncodeFails(wback[1]) THEN "encode_err" ELSE "accepted")
             /\ wres' = "accepted" =>
                   (write_buf' = Encode(wback[1], <<>>) /\ accepted' = Append(accepted, wback[1]))]_vars

\* C5 witness: the large item, rejected at 8192 buffered bytes, is the third
\* item accepted, by a submit that made no channel call, alone in write_buf
\* after the drain that sent the first two.
C5_Witness ==
    /\ wres = "accepted"
    /\ nwrite = 0
    /\ nflush = 0
    /\ wback = <<Big>>
    /\ accepted = <<Big, Big, Big>>
    /\ write_buf = Flatten(<<Big>>)
    /\ wire = Flatten(<<Big, Big>>)

\* C6 as stated: on a channel whose write always returns 0, poll_ready fails
\* with WriteZero on its first write: one write call, no flush, no success.
C6_ZeroWriteFatal ==
    (chan = "zero" /\ wcaller = "poll_ready") =>
        /\ nwrite <= 1
        /\ nflush = 0
        /\ wpc = "idle" => (wres = "write_zero" /\ nwrite = 1)

\* C6 amended: the same for a poll_ready entered with write_buf non-empty
\* (on this channel write_buf never shrinks); with write_buf empty it makes
\* no write call and goes to the flush.
C6_ZeroWriteFatalNonEmpty ==
    (chan = "zero" /\ wcaller = "poll_ready") =>
        /\ nwrite <= 1
        /\ write_buf # <<>> =>
              /\ nflush = 0
              /\ wpc = "idle" => (wres = "write_zero" /\ nwrite = 1)
        /\ write_buf = <<>> => nwrite = 0

\* C6 witness: a poll_ready on the zero channel has failed with two items
\* buffered.
C6_Witness ==
    /\ chan = "zero"
    /\ wcaller = "poll_ready"
    /\ wpc = "idle"
    /\ wres = "write_zero"
    /\ Len(accepted) = 2

\* C9 as stated: a submit ends accepted, rejected for backpressure or in an
\* encode error, and in nothing else.
C9_ThreeOutcomes ==
    (wcaller = "start_send" /\ wpc = "idle") =>
        wres \in {"accepted", "rejected", "encode_err"}

\* C9 amended: a submit ends in exactly one of four outcomes: accepted (the
\* item's encoding appended to the tail of write_buf), rejected for
\* backpressure (the item handed back, nothing appended), an encode error
\* (nothing appended), or the zero-progress write error of its drain attempt
\* (nothing appended).
C9_FourOutcomes ==
    [][\A item \in Items : SendCompletes(item) =>
          \/ /\ wres' = "accepted"
             /\ write_buf' = write_buf \o Encode(item, <<>>)
             /\ accepted' = Append(accepted, item)
          \/ /\ wres' = "rejected"
             /\ wback' = <<item>>
             /\ UNCHANGED <<write_buf, accepted>>
          \/ /\ wres' = "encode_err"
             /\ EncodeFails(item)
             /\ UNCHANGED <<write_buf, accepted>>
          \/ /\ wres' = "write_zero"
             /\ nwrite' >= 1
             /\ UNCHANGED <<write_buf, accepted>>]_vars

\* C9 witness: a submit has ended in the write error of its drain attempt.
C9_Witness ==
    /\ wcaller = "start_send"
    /\ wpc = "idle"
    /\ wres = "write_zero"

\* C10: poll_flush drains and flushes: it ends in success, in a write or
\* flush error, or suspended, and never aborts the program.
C10_FlushNeverAborts ==
    wcaller = "poll_flush" => (wpc # "aborted" /\ wres \in {"ok", "pending", "write_zero"})

---------------------------------------------------------------------------
(* Claims about the round trip (SpecPipe) *)

\* C8: round trip: the items the receiving transport yields are the items
\* the sender accepted, in order, as long as the sender did not shut the
\* channel down with bytes left in write_buf; and when the receiver has seen
\* the end of the drained stream, all of them are out.
C8_RoundTrip ==
    (closed => write_buf = <<>>) =>
        /\ Len(out) <= Len(accepted)
        /\ \A i \in 1..Len(out) : out[i] = <<"ok", accepted[i]>>
        /\ eof => Len(out) = Len(accepted)

\* C8 witness: three different items submitted, drained, shut down, and read
\* back to the end of the stream.
C8_Witness ==
    /\ eof
    /\ closed
    /\ accepted = <<<<2, 1>>, <<>>, <<1>>>>
    /\ Len(out) = 3

---------------------------------------------------------------------------
(* Further claims about the write path (SpecWrite) *)

\* C11: shutdown does not auto-flush: the step that closes the channel
\* issues no write and no flush and leaves write_buf, read_buf, eof and
\* is_readable as they are, so the bytes in write_buf are not sent by it.
C11_ShutdownNoFlush ==
    [][(~closed /\ closed') =>
          UNCHANGED <<write_buf, wire, nwrite, nflush, read_buf, eof, is_readable>>]_vars

\* C11 witness: the channel is closed with bytes of a half-drained buffer
\* still in write_buf.
C11_Witness ==
    /\ closed
    /\ write_buf # <<>>
    /\ wire # <<>>

\* A step that ends the drain attempt of a start_send without an error.
DrainAttemptEnds ==
    /\ WritePending \/ Flush
    /\ wcaller = "start_send"

\* The parts of the submit rule that hold whatever the drain attempt does.
SubmitRuleCommon ==
    /\ \A item \in Items :
          (StartSend(item) /\ Len(write_buf) >= BACKPRESSURE_BOUNDARY) =>
              (wpc' = "drain" /\ UNCHANGED <<write_buf, accepted, wire>>)
    /\ \A item \in Items :
          (StartSend(item) /\ Len(write_buf) < BACKPRESSURE_BOUNDARY) =>
              /\ wpc' = "idle"
              /\ nwrite' = 0
              /\ wire' = wire
              /\ wres' = (IF EncodeFails(item) THEN "encode_err" ELSE "accepted")
    /\ DrainAttemptEnds =>
          /\ wres' = "rejected" <=> Len(write_buf) >= BACKPRESSURE_BOUNDARY
          /\ wres' # "rejected" =>
                wres' = (IF EncodeFails(witem) THEN "encode_err" ELSE "accepted")
          /\ wres' = "rejected" => UNCHANGED <<write_buf, accepted>>

\* C13 as stated: a submit entered at 8192 bytes or more first attempts a
\* drain and rejects exactly when write_buf is still at 8192 or more once
\* the channel has taken what it takes without suspending, a rejected submit
\* appending nothing; a submit entered below 8192 writes nothing to the
\* channel and goes to the encode.
C13_RejectIffStillOver ==
    [][/\ SubmitRuleCommon
       /\ (WriteZero /\ wcaller = "start_send") =>
             (wres' = "rejected" <=> Len(write_buf) >= BACKPRESSURE_BOUNDARY)]_vars

\* C13 amended: the same, unless a write of the drain attempt returns 0: the
\* submit then returns the zero-progress error, neither rejecting nor
\* encoding, whatever the length of write_buf.
C13_RejectIffStillOverOrError ==
    [][/\ SubmitRuleCommon
       /\ (WriteZero /\ wcaller = "start_send") =>
             (wres' = "write_zero" /\ UNCHANGED <<write_buf, accepted>>)]_vars

\* C13 witness: a submit entered at 8192 bytes whose drain attempt got one
\* byte out before the channel suspended: 8191 bytes were left, and the item
\* was encoded instead of rejected.
C13_Witness ==
    /\ wcaller = "start_send"
    /\ wpc = "idle"
    /\ wres = "accepted"
    /\ nwrite = 2
    /\ Len(wire) = 1
    /\ Len(accepted) = 3

\* C14: drain-and-flush step order: a write of n > 0 bytes moves exactly the
\* first n bytes of write_buf to the channel; the flush is invoked only with
\* write_buf empty; poll_ready reports success only with write_buf empty and
\* the flush done.
C14_DrainStepOrder ==
    [][/\ (wire' # wire \/ Len(write_buf') < Len(write_buf)) =>
             LET n == Len(wire') - Len(wire)
             IN  /\ n > 0
                 /\ n <= Len(write_buf)
                 /\ wire' = wire \o Take(write_buf, n)
                 /\ write_buf' = Drop(write_buf, n)
       /\ nflush' = nflush + 1 => write_buf = <<>>
       /\ (wcaller' = "poll_ready" /\ wres' = "ok" /\ wpc' = "idle") =>
             (write_buf' = <<>> /\ nflush' = 1)]_vars

\* C14 witness: a poll_ready has succeeded after a partial write, a second
\* write and the flush.
C14_Witness ==
    /\ wcaller = "poll_ready"
    /\ wpc = "idle"
    /\ wres = "ok"
    /\ nwrite = 2
    /\ nflush = 1
    /\ Len(accepted) = 2

\* The largest encoding of a single item: the length symbol and MaxFrameLen
\* payload bytes.
MaxEncoded == MaxFrameLen + 1

\* C20: write_buf is bounded: it grows only from a length below 8192, so
\* its length stays below 8192 + M, M the largest encoding of one item.
C20_WriteBufBounded ==
    /\ [](Len(write_buf) < BACKPRESSURE_BOUNDARY + MaxEncoded)
    /\ [][Len(write_buf') > Len(write_buf) => Len(write_buf) < BACKPRESSURE_BOUNDARY]_vars

\* C20 witness: the bound is met: 8191 bytes left by a drain, the largest
\* item encoded behind them.
C20_Witness == Len(write_buf) = BACKPRESSURE_BOUNDARY - 1 + MaxEncoded

---------------------------------------------------------------------------
(* Further claims about the read path (SpecRead, SpecReadFair) *)

\* C12: decode_eof is invoked at most once in the life of a transport, and
\* only after the stream has reported end-of-input; a pull that follows the
\* one that invoked it signals end-of-sequence without invoking it again.
C12_DecodeEofOnce ==
    /\ neof <= 1
    /\ neof >= 1 => eof

\* The frames among the items yielded, in order.
IsOk(x) == x[1] = "ok"
OkFrames(items) ==
    LET oks == SelectSeq(items, IsOk)
    IN  [i \in 1..Len(oks) |-> oks[i][2]]

\* C15: read-side byte order: the bytes of the frames emitted, followed by
\* read_buf, are the bytes the channel has delivered so far, in order: the
\* transport appends at the tail, drops and reorders nothing, and emits no
\* partial frame.
C15_ReadByteOrder == Flatten(OkFrames(out)) \o read_buf = Take(wire, rpos)

\* C15 witness: a frame is out and the head of the next one is buffered, with
\* more bytes to come.
C15_Witness ==
    /\ Len(out) = 1
    /\ out[1] = <<"ok", <<1>>>>
    /\ read_buf = <<2, 2>>
    /\ Avail > 0

\* C16: eof starts false, becomes true exactly in the step where a read
\* returns 0 bytes (not where it delivers bytes or suspends), and is never
\* reset.
C16_EofExactlyOnZeroRead ==
    /\ ~eof
    /\ [][eof' = (eof \/ (rpc = "read" /\ rpc' = "top" /\ rpos' = rpos))]_vars

\* C16 witness: eof is set after two frames were read and yielded.
C16_Witness ==
    /\ eof
    /\ Len(out) = 2
    /\ rpos = Len(wire)
    /\ rpos > MaxChunk

\* C17: is_readable discipline: the decoder is about to be invoked only if
\* it has not reported None since the last completed read, across suspended
\* pulls too; and a read is issued only at the start or after the decoder
\* reported None on what the last read delivered.
C17_ReadableDiscipline ==
    /\ (rpc = "top" /\ is_readable) => rhist # "none"
    /\ rpc = "read" => rhist \in {"start", "none"}
    /\ (rpc = "top" /\ rhist \in {"read", "zero"}) => is_readable

\* C17 witness: a pull polled again after a suspended read, the decoder
\* having reported None on a partial frame: it goes to the read without
\* invoking the decoder.
C17_Witness ==
    /\ rpc = "top"
    /\ ~is_readable
    /\ rhist = "none"
    /\ rres = "pending"
    /\ read_buf # <<>>

\* A pull has been issued and has not returned an item, an error or
\* end-of-sequence yet.
PullOutstanding == rpc \in {"top", "read"} \/ (rpc = "idle" /\ rres = "pending")

\* C18: pull termination: on a finite stream that then ends, with reads
\* fairly scheduled, every pull eventually returns an item, an error or
\* end-of-sequence.
C18_PullTerminates ==
    PullOutstanding ~> (rpc = "idle" /\ rres \in {"item", "err", "end"})

\* C19: eof implies is_readable in every state: assert!(!self.eof) never
\* fails and no read is issued after end-of-input.
C19_EofImpliesReadable ==
    /\ eof => is_readable
    /\ rres # "assert"
    /\ rpc = "read" => ~eof

\* C19 witness: pulls go on after end-of-input, each one through the eof
\* branch.
C19_Witness ==
    /\ eof
    /\ is_readable
    /\ neof = 2
    /\ rpc = "idle"

============================================================================
